---- MODULE Spec2Model ----
(***************************************************************************)
(* Model of the nook digest pipeline:                                      *)
(*   viewer.py          extract_links, fetch_url_content, chat             *)
(*   reddit_explorer.py RedditExplorer and lambda_handler                  *)
(* Texts are sequences of tokens.  A token is an indivisible run of        *)
(* characters: the one-character tokens "[", "]", "(", ")" and " ", the    *)
(* scheme prefix "http://", and words without brackets or white space.     *)
(***************************************************************************)
EXTENDS Integers, Sequences, FiniteSets, TLC

VARIABLES
    text,       \* extract_links: the argument
    links,      \* extract_links: the returned list
    lpc,        \* extract_links: "idle" | "call" | "done"
    sub,        \* _retrieve_hot_posts: the submission the loop body is handling
    post_type,  \* _retrieve_hot_posts: local post_type
    url,        \* _retrieve_hot_posts: local url
    posts,      \* _retrieve_hot_posts: local posts, the list being built
    fragment,   \* _stylize_post: the rendered fragment of the kept post
    ppc,        \* position in the loop body:
                \* "idle" | "judge" | "url" | "filter" | "kept" | "dropped"
                \* | "raised" | "rendered"
    forest,     \* _retrieve_top_comments_of_post: the comments the API serves
    limit,      \* _retrieve_top_comments_of_post: the limit argument
    comments,   \* _retrieve_top_comments_of_post: the returned list
    cpc,        \* "idle" | "call" | "done"
    event,      \* lambda_handler: the event
    status,     \* lambda_handler: statusCode of the response, 0 before it
    rpc,        \* position of the run: "idle" | "handler" | "hot" | "posts"
                \* | "store" | "returned"
    sub_idx,    \* __call__: index of the subreddit in self._subreddits
    run_posts,  \* __call__: posts, the list _retrieve_hot_posts returned
    post_idx,   \* __call__: index of the post in posts
    markdowns,  \* __call__: markdowns
    put_calls,  \* the put_object calls issued, with their outcome
    hot_kept,   \* history: the served submissions that meet no drop
                \* condition, in community and hot order
    failed,     \* history: which call raised, "none" when none did
    markdown,   \* chat: data["markdown"]
    message,    \* chat: data["message"]
    chat_links, \* chat: links
    link_idx,   \* chat: index of the url the for loop is at
    additional_context, \* chat: the list of content blocks
    fetched,    \* history: the fetch_url_content calls, with their result
    prompt,     \* chat: formatted_message, as sent to chat_with_search
    kpc         \* "idle" | "extract" | "fetch" | "build" | "sent" | "aborted"

linkVars == <<text, links, lpc>>
postVars == <<sub, post_type, url, posts, fragment, ppc>>
commentVars == <<forest, limit, comments, cpc>>

runVars == <<event, status, rpc, sub_idx, run_posts, post_idx, markdowns,
             put_calls, hot_kept, failed>>

chatVars == <<markdown, message, chat_links, link_idx, additional_context,
              fetched, prompt, kpc>>

vars == <<linkVars, postVars, commentVars, runVars, chatVars>>

\* ------------------------------------------------------------------------
\* Bounds of the model
\* ------------------------------------------------------------------------
MaxSegs == 4
MaxComments == 4
MaxLimit == 4
NumSubreddits == 2
MaxHot == 2

\* ------------------------------------------------------------------------
\* Python values: attributes that may be missing, None, strings and dicts
\* ------------------------------------------------------------------------
Absent == [tag |-> "absent"]            \* hasattr(...) is False
Null == [tag |-> "None"]
Str(s) == [tag |-> "str", s |-> s]
PyInt(n) == [tag |-> "int", n |-> n]
EmptyDict == [tag |-> "dict", items |-> [k \in {} |-> Null]]
Dict1(k, v) == [tag |-> "dict", items |-> [x \in {k} |-> v]]

HasAttr(v) == v # Absent

\* d.get(k, default) on a dict d
DictGet(d, k, default) ==
    IF k \in DOMAIN d.items THEN d.items[k] ELSE default

Raise == [raised |-> TRUE]
Return(v) == [raised |-> FALSE, value |-> v]

\* x.get("reddit_video", {}).get("fallback_url", None): attribute access on
\* a value that is no dict raises AttributeError.
FallbackUrlOf(x) ==
    IF x.tag # "dict" THEN Raise
    ELSE LET rv == DictGet(x, "reddit_video", EmptyDict) IN
         IF rv.tag # "dict" THEN Raise
         ELSE Return(DictGet(rv, "fallback_url", Null))

\* ------------------------------------------------------------------------
\* viewer.py: extract_links
\* ------------------------------------------------------------------------

\* Smallest index in i..Len(t) holding token c, or 0 when there is none.
RECURSIVE FirstAt(_, _, _)
FirstAt(t, i, c) ==
    IF i > Len(t) THEN 0
    ELSE IF t[i] = c THEN i
    ELSE FirstAt(t, i + 1, c)

\* str.startswith on token sequences.
StartsWith(s, p) ==
    /\ Len(s) >= Len(p)
    /\ SubSeq(s, 1, Len(p)) = p

\* A failed match attempt (every match ends at an index >= 1).
NoMatch == [end |-> 0]

\* One match of r"\[([^\]]+)\]\(([^)]+)\)" beginning at index i, as
\* [label, url, start, end], or NoMatch.  Both classes are greedy runs that must stop
\* right before the first "]" (resp. ")"), so a match is unique.
MarkdownMatchAt(t, i) ==
    IF i > Len(t) \/ t[i] # "[" THEN NoMatch
    ELSE LET j == FirstAt(t, i + 1, "]") IN
         IF j = 0 \/ j = i + 1 THEN NoMatch
         ELSE IF j + 1 > Len(t) \/ t[j + 1] # "(" THEN NoMatch
         ELSE LET k == FirstAt(t, j + 2, ")") IN
              IF k = 0 \/ k = j + 2 THEN NoMatch
              ELSE [label |-> SubSeq(t, i + 1, j - 1),
                    url   |-> SubSeq(t, j + 2, k - 1),
                    start |-> i,
                    end   |-> k]

\* re.findall for the markdown pattern: leftmost non-overlapping matches.
RECURSIVE FindMarkdown(_, _)
FindMarkdown(t, i) ==
    IF i > Len(t) THEN <<>>
    ELSE LET m == MarkdownMatchAt(t, i) IN
         IF m.end = 0 THEN FindMarkdown(t, i + 1)
         ELSE <<m>> \o FindMarkdown(t, m.end + 1)

\* The filter of lines 113-117: the captured label (the text between the
\* brackets) must not start with the literal "[Image]" or "[Video]".
KeepMarkdownLink(m) ==
    /\ ~StartsWith(m.label, <<"[", "Image", "]">>)
    /\ ~StartsWith(m.label, <<"[", "Video", "]">>)

\* Last index of the greedy run [^\s\)]+ that starts at index i.
RECURSIVE RunEnd(_, _)
RunEnd(t, i) ==
    IF i + 1 <= Len(t) /\ t[i + 1] \notin {" ", ")"}
    THEN RunEnd(t, i + 1)
    ELSE i

\* One match of r"(?<![\(\[])(https?://[^\s\)]+)" beginning at index i, as
\* [url, start, end], or NoMatch.
BareMatchAt(t, i) ==
    IF i > Len(t) \/ t[i] # "http://" THEN NoMatch
    ELSE IF i > 1 /\ t[i - 1] \in {"(", "["} THEN NoMatch
    ELSE IF i + 1 > Len(t) \/ t[i + 1] \in {" ", ")"} THEN NoMatch
    ELSE LET e == RunEnd(t, i + 1) IN
         [url |-> SubSeq(t, i, e), start |-> i, end |-> e]

RECURSIVE FindBare(_, _)
FindBare(t, i) ==
    IF i > Len(t) THEN <<>>
    ELSE LET m == BareMatchAt(t, i) IN
         IF m.end = 0 THEN FindBare(t, i + 1)
         ELSE <<m>> \o FindBare(t, m.end + 1)

Urls(ms) == [n \in 1..Len(ms) |-> ms[n].url]

extract_links(t) ==
    LET markdown_links == SelectSeq(FindMarkdown(t, 1), KeepMarkdownLink)
        urls == FindBare(t, 1)
    IN  Urls(markdown_links) \o Urls(urls)

\* ---- inputs: texts built from at most MaxSegs segments ----
Segments ==
    { <<"[">>, <<"]">>, <<"(">>, <<")">>, <<" ">>, <<"http://">>, <<"a">>,
      <<"Image">>,
      <<"[", "Image", "]", "(">>,
      <<"[", "Video", "]", "(">>,
      <<"[", "a", "]", "(">>,
      <<"http://", "a">> }

RECURSIVE Concat(_)
Concat(ss) == IF ss = <<>> THEN <<>> ELSE Head(ss) \o Concat(Tail(ss))

SegTexts == { Concat(ss) : ss \in UNION { [1..n -> Segments] : n \in 0..MaxSegs } }

\* "See [Image](http://x/img.png) and http://y/page"
ImageExample ==
    <<"See", " ", "[", "Image", "]", "(", "http://", "x/img.png", ")", " ",
      "and", " ", "http://", "y/page">>
\* "[Guide](http://a) http://a"
GuideExample ==
    <<"[", "Guide", "]", "(", "http://", "a", ")", " ", "http://", "a">>

ExampleTexts == {ImageExample, GuideExample}

InitLinks ==
    /\ \/ text \in ExampleTexts
       \/ text \in SegTexts \ ExampleTexts
    /\ links = <<>>
    /\ lpc = "call"

IdleLinks ==
    /\ text = <<>>
    /\ links = <<>>
    /\ lpc = "idle"

ExtractLinks ==
    /\ lpc = "call"
    /\ links' = extract_links(text)
    /\ lpc' = "done"
    /\ UNCHANGED <<text, postVars, commentVars, runVars, chatVars>>


\* ------------------------------------------------------------------------
\* reddit_explorer.py: classification, URL resolution, filtering, rendering
\* ------------------------------------------------------------------------
UpvoteRatioThreshold == 70      \* upvote_ratio is modelled in hundredths

\* Mutant: the gallery hint is consulted before the image hint.
judge_post_type_gallery_first(post) ==
    IF post.is_gallery = "True" THEN "gallery"
    ELSE IF post.post_hint = Str("image") THEN "image"
    ELSE IF post.is_video = "True" THEN "video"
    ELSE IF post.has_poll_data THEN "poll"
    ELSE IF post.has_crosspost_parent THEN "crosspost"
    ELSE IF post.is_self THEN "text"
    ELSE "link"

judge_post_type(post) ==
    IF post.post_hint = Str("image") THEN "image"
    ELSE IF post.is_gallery = "True" THEN "gallery"
    ELSE IF post.is_video = "True" THEN "video"
    ELSE IF post.has_poll_data THEN "poll"
    ELSE IF post.has_crosspost_parent THEN "crosspost"
    ELSE IF post.is_self THEN "text"
    ELSE "link"

get_video_url(post) ==
    IF HasAttr(post.media) THEN FallbackUrlOf(post.media)
    ELSE IF HasAttr(post.secure_media) THEN FallbackUrlOf(post.secure_media)
    ELSE Return(Null)

\* str.lower() on the words titles are made of
Lower(w) ==
    CASE w = "Megathread" -> "megathread"
      [] w = "MEGATHREADS" -> "megathreads"
      [] w = "Daily" -> "daily"
      [] w = "Mega" -> "mega"
      [] OTHER -> w

\* "megathread" in w, for a lower-case word w
WordContainsMegathread(w) == w \in {"megathread", "megathreads"}

TitleHasMegathread(title) ==
    \E i \in 1..Len(title) : WordContainsMegathread(Lower(title[i]))

\* Lines 117-124: the four `continue` conditions, in order.
ShouldDrop(post, type) ==
    \/ post.author_name = "AutoModerator"
    \/ TitleHasMegathread(post.title)
    \/ post.upvote_ratio < UpvoteRatioThreshold
    \/ type \in {"gallery", "poll", "crosspost"}

RedditPost(post, type, u) ==
    [type |-> type, id |-> post.id, title |-> post.title, url |-> u,
     upvotes |-> post.ups]

\* The media block of _MARKDOWN_FORMAT
MediaBlock(post) ==
    IF post.type = "image" THEN [kind |-> "image", src |-> post.url]
    ELSE IF post.type = "video" /\ post.url # Null
         THEN [kind |-> "video", src |-> post.url]
    ELSE [kind |-> "empty"]

stylize_post(post, summary) ==
    [title |-> post.title, upvotes |-> post.upvotes,
     image_or_video_or_none |-> MediaBlock(post),
     permalink |-> post.id, summary |-> summary]

\* ---- inputs: the submissions the forum API may yield ----
MediaValues ==
    { Absent, Null, EmptyDict,
      Dict1("reddit_video", EmptyDict),
      Dict1("reddit_video", Dict1("fallback_url", Str("media_url"))) }

SecureMediaValues ==
    { Absent, Null, EmptyDict,
      Dict1("reddit_video", Dict1("fallback_url", Str("secure_url"))) }

Titles ==
    { <<"cat", "pictures">>, <<"Daily", "Megathread">>, <<"MEGATHREADS">>,
      <<"Mega", "thread">> }

Submissions ==
    [ post_hint : {Absent, Str("image"), Str("link")},
      is_gallery : {"absent", "False", "True"},
      is_video : {"absent", "False", "True"},
      has_poll_data : BOOLEAN,
      has_crosspost_parent : BOOLEAN,
      is_self : BOOLEAN,
      author_name : {"AutoModerator", "alice"},
      title : Titles,
      upvote_ratio : {69, 70, 71},
      media : MediaValues,
      secure_media : SecureMediaValues,
      id : {"p"},
      ups : {5},
      url : {Str("post_url")} ]

NoSub == [id |-> "none"]
NoFragment == [kind |-> "none"]

InitPost ==
    /\ sub \in Submissions
    /\ post_type = "unset"
    /\ url = Absent
    /\ posts = <<>>
    /\ fragment = NoFragment
    /\ ppc = "judge"

IdlePost ==
    /\ sub = NoSub
    /\ post_type = "unset"
    /\ url = Absent
    /\ posts = <<>>
    /\ fragment = NoFragment
    /\ ppc = "idle"

\* line 112
JudgePostType ==
    /\ ppc = "judge"
    /\ post_type' = judge_post_type(sub)
    /\ ppc' = "url"
    /\ UNCHANGED <<sub, url, posts, fragment, linkVars, commentVars, runVars, chatVars>>

\* line 114
ResolveUrl ==
    /\ ppc = "url"
    /\ LET r == IF post_type = "video" THEN get_video_url(sub)
                ELSE Return(sub.url)
       IN  IF r.raised
           THEN /\ ppc' = "raised"
                /\ UNCHANGED url
           ELSE /\ ppc' = "filter"
                /\ url' = r.value
    /\ UNCHANGED <<sub, post_type, posts, fragment, linkVars, commentVars, runVars, chatVars>>

\* lines 116-136
FilterPost ==
    /\ ppc = "filter"
    /\ IF ShouldDrop(sub, post_type)
       THEN /\ ppc' = "dropped"
            /\ UNCHANGED posts
       ELSE /\ ppc' = "kept"
            /\ posts' = Append(posts, RedditPost(sub, post_type, url))
    /\ UNCHANGED <<sub, post_type, url, fragment, linkVars, commentVars, runVars, chatVars>>

\* line 85, for the post just kept
StylizePost ==
    /\ ppc = "kept"
    /\ \E summary \in {"summary"} :
          fragment' = stylize_post(posts[Len(posts)], summary)
    /\ ppc' = "rendered"
    /\ UNCHANGED <<sub, post_type, url, posts, linkVars, commentVars, runVars, chatVars>>



\* ------------------------------------------------------------------------
\* reddit_explorer.py: _retrieve_top_comments_of_post
\* ------------------------------------------------------------------------
reddit_top_comments_limit == 3

Min(a, b) == IF a < b THEN a ELSE b
Max(a, b) == IF a > b THEN a ELSE b

\* s[:n] of Python, n an integer (a negative n counts from the end)
SliceTo(s, n) ==
    IF n >= 0 THEN SubSeq(s, 1, Min(n, Len(s)))
    ELSE SubSeq(s, 1, Max(Len(s) + n, 0))

IsComment(item) == item.kind = "comment"

\* submission.comments.replace_more(limit=0): every MoreComments
\* placeholder is removed, none is expanded.
replace_more(f) == SelectSeq(f, IsComment)

\* submission.comments.list() after replace_more: the comments in the order
\* the API gave them.
comments_list(f) == replace_more(f)

CommentDict(c) == [text |-> c.body, upvotes |-> c.ups]

\* Mutant: the slice keeps one comment too many.
retrieve_top_comments_one_more(f, lim) ==
    LET n == IF lim = Null THEN reddit_top_comments_limit ELSE lim.n
        top == SliceTo(comments_list(f), n + 1)
    IN  [i \in 1..Len(top) |-> CommentDict(top[i])]

retrieve_top_comments_of_post(f, lim) ==
    LET n == IF lim = Null THEN reddit_top_comments_limit ELSE lim.n
        top == SliceTo(comments_list(f), n)
    IN  [i \in 1..Len(top) |-> CommentDict(top[i])]

\* ---- inputs ----
MoreComments == [kind |-> "more"]
CommentItems ==
    {MoreComments} \cup
    { [kind |-> "comment", body |-> b, ups |-> u] :
        b \in {"x", "y"}, u \in {1, 9} }

Forests == UNION { [1..n -> CommentItems] : n \in 0..MaxComments }

\* limit: None (the default, the only value __call__ passes) or an int
LimitArgs == {Null} \cup { PyInt(n) : n \in 0..MaxLimit }

InitComments ==
    /\ forest \in Forests
    /\ limit \in LimitArgs
    /\ comments = <<>>
    /\ cpc = "call"

IdleComments ==
    /\ forest = <<>>
    /\ limit = Null
    /\ comments = <<>>
    /\ cpc = "idle"

RetrieveTopComments ==
    /\ cpc = "call"
    /\ comments' = retrieve_top_comments_of_post(forest, limit)
    /\ cpc' = "done"
    /\ UNCHANGED <<forest, limit, linkVars, postVars, runVars, chatVars>>


\* ------------------------------------------------------------------------
\* reddit_explorer.py: _retrieve_hot_posts, __call__, _store_summaries,
\* lambda_handler
\* ------------------------------------------------------------------------
reddit_top_posts_limit == 10

\* The for loop of _retrieve_hot_posts over the served listing, from index
\* i on, with the posts collected so far.
RECURSIVE HotLoop(_, _, _)
HotLoop(listing, i, acc) ==
    IF i > Len(listing) THEN [raised |-> FALSE, posts |-> acc]
    ELSE LET post == listing[i]
             type == judge_post_type(post)
             r == IF type = "video" THEN get_video_url(post)
                  ELSE Return(post.url)
         IN  IF r.raised THEN [raised |-> TRUE]
             ELSE IF ShouldDrop(post, type) THEN HotLoop(listing, i + 1, acc)
             ELSE HotLoop(listing, i + 1,
                          Append(acc, RedditPost(post, type, r.value)))

retrieve_hot_posts(listing) == HotLoop(listing, 1, <<>>)

Separator == [kind |-> "separator"]

\* Mutant: a separator after every fragment, the last one included.
RECURSIVE JoinSummariesTrailing(_)
JoinSummariesTrailing(summaries) ==
    IF summaries = <<>> THEN <<>>
    ELSE <<Head(summaries), Separator>> \o JoinSummariesTrailing(Tail(summaries))

\* "\n---\n".join(summaries): the document as the sequence of its fragments
\* and separators.
RECURSIVE JoinSummaries(_)
JoinSummaries(summaries) ==
    IF summaries = <<>> THEN <<>>
    ELSE IF Len(summaries) = 1 THEN summaries
    ELSE <<Head(summaries), Separator>> \o JoinSummaries(Tail(summaries))

summary_index_s3_key == "reddit_explorer/{date}.md"

\* Lines 264-288 of lambda_handler: "trigger", "no_trigger", or "raise" when
\* the POST body parses to JSON that is no object (body_json.get raises).
TriggerDecision(ev) ==
    IF ev.source = "aws.events" THEN "trigger"
    ELSE IF ev.request_context /\ ev.method = "POST"
         THEN CASE ev.body = "aws.events" -> "trigger"
                [] ev.body = "not_an_object" -> "raise"
                [] OTHER -> "no_trigger"
    ELSE "no_trigger"

\* ---- inputs ----
Events ==
    [ source : {"aws.events", "other"},
      request_context : BOOLEAN,
      method : {"POST", "GET"},
      body : {"aws.events", "other", "invalid_json", "not_an_object"} ]

BaseSubmission ==
    [ post_hint |-> Absent, is_gallery |-> "False", is_video |-> "False",
      has_poll_data |-> FALSE, has_crosspost_parent |-> FALSE,
      is_self |-> TRUE, author_name |-> "alice",
      title |-> <<"cat", "pictures">>, upvote_ratio |-> 70,
      media |-> Null, secure_media |-> Null,
      id |-> "text", ups |-> 5, url |-> Str("post_url") ]

\* The submissions a run is served: an image post and a video post that are
\* kept, a bot post that is dropped, and a video post whose media is null.
RunSubmissions ==
    { [BaseSubmission EXCEPT !.post_hint = Str("image"), !.id = "image"],
      [BaseSubmission EXCEPT
          !.is_video = "True", !.id = "video",
          !.media = Dict1("reddit_video",
                          Dict1("fallback_url", Str("media_url")))],
      [BaseSubmission EXCEPT !.author_name = "AutoModerator", !.id = "bot"],
      [BaseSubmission EXCEPT !.is_video = "True", !.id = "nomedia"] }

Listings ==
    UNION { [1..n -> RunSubmissions] :
              n \in 0..Min(MaxHot, reddit_top_posts_limit) }

\* The summary the LLM returns for a post
SummaryOf(post) == post.id

NoDropCondition(post) ==
    /\ post.author_name # "AutoModerator"
    /\ ~TitleHasMegathread(post.title)
    /\ post.upvote_ratio >= UpvoteRatioThreshold
    /\ judge_post_type(post) \notin {"gallery", "poll", "crosspost"}

InitRun ==
    /\ event \in Events
    /\ status = 0
    /\ rpc = "handler"
    /\ sub_idx = 0
    /\ run_posts = <<>>
    /\ post_idx = 0
    /\ markdowns = <<>>
    /\ put_calls = <<>>
    /\ hot_kept = <<>>
    /\ failed = "none"

IdleRun ==
    /\ event = [source |-> "none"]
    /\ status = 0
    /\ rpc = "idle"
    /\ sub_idx = 0
    /\ run_posts = <<>>
    /\ post_idx = 0
    /\ markdowns = <<>>
    /\ put_calls = <<>>
    /\ hot_kept = <<>>
    /\ failed = "none"

NotRun == UNCHANGED <<linkVars, postVars, commentVars, chatVars>>

\* lambda_handler up to the call of the job (lines 258-293), and its
\* answers when the job is not triggered (lines 301-322).
Dispatch ==
    /\ rpc = "handler"
    /\ LET d == TriggerDecision(event) IN
       CASE d = "trigger" ->
              /\ rpc' = IF NumSubreddits = 0 THEN "store" ELSE "hot"
              /\ sub_idx' = 1
              /\ UNCHANGED <<status, failed>>
         [] d = "no_trigger" ->
              /\ status' = 400
              /\ rpc' = "returned"
              /\ UNCHANGED <<sub_idx, failed>>
         [] OTHER ->
              /\ status' = 500
              /\ rpc' = "returned"
              /\ failed' = "handler"
              /\ UNCHANGED sub_idx
    /\ UNCHANGED <<event, run_posts, post_idx, markdowns, put_calls, hot_kept>>
    /\ NotRun

\* Where __call__ goes on after subreddit si returned the list ps (pi = 1)
\* or after the post pi - 1 of ps was handled: the next post, the next
\* subreddit with posts to fetch, or _store_summaries.
AfterPost(si, ps, pi) ==
    IF pi <= Len(ps) THEN [rpc |-> "posts", sub_idx |-> si]
    ELSE IF si < NumSubreddits THEN [rpc |-> "hot", sub_idx |-> si + 1]
    ELSE [rpc |-> "store", sub_idx |-> si]

\* line 81: posts = self._retrieve_hot_posts(subreddit)
RetrieveHotPosts ==
    /\ rpc = "hot"
    /\ \E listing \in Listings :
          LET r == retrieve_hot_posts(listing) IN
          IF r.raised
          THEN /\ failed' = "hot"
               /\ status' = 500
               /\ rpc' = "returned"
               /\ UNCHANGED <<sub_idx, run_posts, post_idx, hot_kept>>
          ELSE /\ run_posts' = r.posts
               /\ post_idx' = 1
               /\ hot_kept' = hot_kept \o SelectSeq(listing, NoDropCondition)
               /\ rpc' = AfterPost(sub_idx, r.posts, 1).rpc
               /\ sub_idx' = AfterPost(sub_idx, r.posts, 1).sub_idx
               /\ UNCHANGED <<failed, status>>
    /\ UNCHANGED <<event, markdowns, put_calls>>
    /\ NotRun

\* line 83 raises: the exception leaves __call__ and is caught at line 312.
CommentFetchFails ==
    /\ rpc = "posts"
    /\ failed' = "comments"
    /\ status' = 500
    /\ rpc' = "returned"
    /\ UNCHANGED <<event, sub_idx, run_posts, post_idx, markdowns, put_calls,
                   hot_kept>>
    /\ NotRun

\* Mutant: the failure is caught per post, the post is skipped and the run
\* goes on.
SummarizeFailsSkipsPost ==
    /\ rpc = "posts"
    /\ failed' = "summarize"
    /\ post_idx' = post_idx + 1
    /\ rpc' = AfterPost(sub_idx, run_posts, post_idx + 1).rpc
    /\ sub_idx' = AfterPost(sub_idx, run_posts, post_idx + 1).sub_idx
    /\ UNCHANGED <<event, status, run_posts, markdowns, put_calls, hot_kept>>
    /\ NotRun

\* line 84 raises: the exception leaves __call__ and is caught at line 312.
SummarizeFails ==
    /\ rpc = "posts"
    /\ failed' = "summarize"
    /\ status' = 500
    /\ rpc' = "returned"
    /\ UNCHANGED <<event, sub_idx, run_posts, post_idx, markdowns, put_calls,
                   hot_kept>>
    /\ NotRun

\* lines 83-86 for one post, no call raising
ProcessPost ==
    /\ rpc = "posts"
    /\ LET post == run_posts[post_idx] IN
       markdowns' = Append(markdowns, stylize_post(post, SummaryOf(post)))
    /\ post_idx' = post_idx + 1
    /\ rpc' = AfterPost(sub_idx, run_posts, post_idx + 1).rpc
    /\ sub_idx' = AfterPost(sub_idx, run_posts, post_idx + 1).sub_idx
    /\ UNCHANGED <<event, status, run_posts, put_calls, hot_kept, failed>>
    /\ NotRun

PutCall(outcome) ==
    [key |-> summary_index_s3_key, body |-> JoinSummaries(markdowns),
     outcome |-> outcome]

\* _store_summaries, put_object succeeding; lambda_handler answers 200.
StoreSummaries ==
    /\ rpc = "store"
    /\ put_calls' = Append(put_calls, PutCall("ok"))
    /\ status' = 200
    /\ rpc' = "returned"
    /\ UNCHANGED <<event, sub_idx, run_posts, post_idx, markdowns, hot_kept,
                   failed>>
    /\ NotRun

\* Mutant: no `except ClientError`, the exception leaves _store_summaries
\* and is caught at line 312.
StoreClientErrorPropagates ==
    /\ rpc = "store"
    /\ put_calls' = Append(put_calls, PutCall("ClientError"))
    /\ failed' = "put_client_error"
    /\ status' = 500
    /\ rpc' = "returned"
    /\ UNCHANGED <<event, sub_idx, run_posts, post_idx, markdowns, hot_kept>>
    /\ NotRun

\* _store_summaries, put_object raising ClientError: caught at line 100.
StoreClientError ==
    /\ rpc = "store"
    /\ put_calls' = Append(put_calls, PutCall("ClientError"))
    /\ failed' = "put_client_error"
    /\ status' = 200
    /\ rpc' = "returned"
    /\ UNCHANGED <<event, sub_idx, run_posts, post_idx, markdowns, hot_kept>>
    /\ NotRun

\* _store_summaries, put_object raising an exception that is no ClientError
\* (a connection error of botocore): not caught at line 100, caught at 312.
StoreOtherError ==
    /\ rpc = "store"
    /\ put_calls' = Append(put_calls, PutCall("OtherError"))
    /\ failed' = "put_other_error"
    /\ status' = 500
    /\ rpc' = "returned"
    /\ UNCHANGED <<event, sub_idx, run_posts, post_idx, markdowns, hot_kept>>
    /\ NotRun

\* ------------------------------------------------------------------------
\* viewer.py: fetch_url_content, chat
\* ------------------------------------------------------------------------
TextLimit == 1000

\* A text of n characters; clipped texts carry the "..." marker.
Text(n, clipped) == [tag |-> "str", len |-> n, clipped |-> clipped]

\* The try block of fetch_url_content (lines 127-143) for what the request
\* meets: requests.get, raise_for_status and BeautifulSoup raise; a page
\* without article, main and body gives None; else the text, clipped to
\* its first TextLimit characters plus "..." when longer.
FetchTry(resp) ==
    IF resp.kind # "page" THEN Raise
    ELSE IF resp.main_content = "none" THEN Return(Null)
    ELSE IF resp.len > TextLimit THEN Return(Text(TextLimit + 3, TRUE))
    ELSE Return(Text(resp.len, FALSE))

\* Mutant: no `except Exception`, the failure leaves the function.
fetch_url_content_uncaught(resp) == FetchTry(resp)

\* try ... except Exception: return None
fetch_url_content(resp) ==
    LET r == FetchTry(resp) IN
    IF r.raised THEN Return(Null) ELSE r

\* Truth value of `content := fetch_url_content(url)`: None and "" are false.
Truthy(v) == v # Null /\ v.len > 0

Block(u, content) == [url |-> u, content |-> content]

\* Mutant: a block for every link, fetched or not.
AppendBlockAlways(ctx, u, content) == Append(ctx, Block(u, content))

\* lines 242-243
AppendBlock(ctx, u, content) ==
    IF Truthy(content) THEN Append(ctx, Block(u, content)) ELSE ctx

\* lines 246-252: the section of the prompt, "" when there is no block
ContextSection(ctx) ==
    IF ctx # <<>> THEN [present |-> TRUE, blocks |-> ctx]
    ELSE [present |-> FALSE]

\* ---- inputs ----
Responses ==
    { [kind |-> k] : k \in {"invalid_url", "connection_error", "timeout",
                             "http_error", "parse_error"} }
    \cup { [kind |-> "page", main_content |-> "none", len |-> 0] }
    \cup { [kind |-> "page", main_content |-> m, len |-> n] :
             m \in {"article", "body"}, n \in {0, 5, 1000, 1001} }

ChatMarkdowns ==
    { <<>>,
      <<"[", "a", "]", "(", "http://", "a", ")">>,
      <<"!", "[", "Image", "]", "(", "http://", "i", ")", " ",
        "http://", "b">> }

ChatMessages ==
    { <<"hi">>, <<"see", " ", "http://", "c">> }

NoPrompt == [sent |-> FALSE]

InitChat ==
    /\ markdown \in ChatMarkdowns
    /\ message \in ChatMessages
    /\ chat_links = <<>>
    /\ link_idx = 0
    /\ additional_context = <<>>
    /\ fetched = <<>>
    /\ prompt = NoPrompt
    /\ kpc = "extract"

IdleChat ==
    /\ markdown = <<>>
    /\ message = <<>>
    /\ chat_links = <<>>
    /\ link_idx = 0
    /\ additional_context = <<>>
    /\ fetched = <<>>
    /\ prompt = NoPrompt
    /\ kpc = "idle"

NotChat == UNCHANGED <<linkVars, postVars, commentVars, runVars>>

\* line 237
ChatExtract ==
    /\ kpc = "extract"
    /\ chat_links' = extract_links(markdown) \o extract_links(message)
    /\ link_idx' = 1
    /\ kpc' = IF chat_links' = <<>> THEN "build" ELSE "fetch"
    /\ UNCHANGED <<markdown, message, additional_context, fetched, prompt>>
    /\ NotChat

\* lines 241-243, one iteration of the loop
FetchLink ==
    /\ kpc = "fetch"
    /\ \E resp \in Responses :
          LET u == chat_links[link_idx]
              r == fetch_url_content(resp)
          IN  /\ fetched' = Append(fetched, [url |-> u, resp |-> resp,
                                            result |-> r])
              /\ IF r.raised
                 THEN /\ kpc' = "aborted"
                      /\ UNCHANGED <<additional_context, link_idx>>
                 ELSE /\ additional_context' =
                            AppendBlock(additional_context, u, r.value)
                      /\ link_idx' = link_idx + 1
                      /\ kpc' = IF link_idx + 1 > Len(chat_links)
                                THEN "build" ELSE "fetch"
    /\ UNCHANGED <<markdown, message, chat_links, prompt>>
    /\ NotChat

\* lines 246-262
BuildAndSend ==
    /\ kpc = "build"
    /\ prompt' = [sent |-> TRUE, markdown |-> markdown,
                  additional_context |-> ContextSection(additional_context),
                  message |-> message]
    /\ kpc' = "sent"
    /\ UNCHANGED <<markdown, message, chat_links, link_idx,
                   additional_context, fetched>>
    /\ NotChat

\* ------------------------------------------------------------------------
\* Specifications
\* ------------------------------------------------------------------------
NextRun ==
    \/ Dispatch
    \/ RetrieveHotPosts
    \/ CommentFetchFails
    \/ SummarizeFails
    \/ ProcessPost
    \/ StoreSummaries
    \/ StoreClientError
    \/ StoreOtherError

InitSpecRun == InitRun /\ IdleLinks /\ IdlePost /\ IdleComments /\ IdleChat

SpecRun == InitSpecRun /\ [][NextRun]_vars

NextComments == RetrieveTopComments

InitSpecComments == InitComments /\ IdleLinks /\ IdlePost /\ IdleRun /\ IdleChat

SpecComments == InitSpecComments /\ [][NextComments]_vars

NextChat ==
    \/ ChatExtract
    \/ FetchLink
    \/ BuildAndSend

InitSpecChat == InitChat /\ IdleLinks /\ IdlePost /\ IdleComments /\ IdleRun

SpecChat == InitSpecChat /\ [][NextChat]_vars

NextLinks == ExtractLinks

InitSpecLinks == InitLinks /\ IdlePost /\ IdleComments /\ IdleRun /\ IdleChat

SpecLinks == InitSpecLinks /\ [][NextLinks]_vars

NextPost ==
    \/ JudgePostType
    \/ ResolveUrl
    \/ FilterPost
    \/ StylizePost

InitSpecPost == InitPost /\ IdleLinks /\ IdleComments /\ IdleRun /\ IdleChat

SpecPost == InitSpecPost /\ [][NextPost]_vars

\* ------------------------------------------------------------------------
\* Claims about extract_links (SpecLinks)
\* ------------------------------------------------------------------------
IsMediaLabel(label) == label \in {<<"Image">>, <<"Video">>}
NonMediaLink(m) == ~IsMediaLabel(m.label)

\* C1: for every text, a markdown link whose label is Image or Video
\* contributes no URL to the result of extract_links: the result is the URLs
\* of the markdown links with another label, then the bare URLs; and the
\* text "See [Image](http://x/img.png) and http://y/page" gives exactly
\* ["http://y/page"].
C1_MediaLinksExcluded ==
    lpc = "done" =>
        /\ links = Urls(SelectSeq(FindMarkdown(text, 1), NonMediaLink))
                     \o Urls(FindBare(text, 1))
        /\ text = ImageExample => links = << <<"http://", "y/page">> >>

\* An index lies inside a markdown link when a markdown match spans it.
InsideMarkdownLink(t, i) ==
    \E n \in 1..Len(FindMarkdown(t, 1)) :
        /\ FindMarkdown(t, 1)[n].start <= i
        /\ i <= FindMarkdown(t, 1)[n].end

\* The indices where a URL occurs: a scheme prefix followed by at least one
\* URL character.
UrlStarts(t) ==
    { i \in 1..Len(t) :
        /\ t[i] = "http://"
        /\ i + 1 <= Len(t)
        /\ t[i + 1] \notin {" ", ")"} }

\* C6: the result of extract_links holds one entry per markdown link with a
\* non-media label, followed by one entry per bare URL, each group in
\* first-found order with duplicates kept; no URL that lies inside a
\* markdown link (its brackets or its parentheses) is reported by the
\* bare-URL pass; "[Guide](http://a) http://a" gives two entries, both
\* "http://a".
C6_OneEntryPerOccurrence ==
    lpc = "done" =>
        LET md == SelectSeq(FindMarkdown(text, 1), NonMediaLink)
            bare == FindBare(text, 1)
        IN  /\ Len(links) = Len(md) + Len(bare)
            /\ \A n \in 1..Len(md) : links[n] = md[n].url
            /\ \A n \in 1..Len(bare) : links[Len(md) + n] = bare[n].url
            /\ \A n \in 1..Len(bare) :
                  \A i \in UrlStarts(text) :
                      (bare[n].start <= i /\ i <= bare[n].end)
                          => ~InsideMarkdownLink(text, i)
            /\ text = GuideExample
                  => links = << <<"http://", "a">>, <<"http://", "a">> >>

\* ------------------------------------------------------------------------
\* Claims about the loop body of _retrieve_hot_posts (SpecPost)
\* ------------------------------------------------------------------------
PostTypes == {"image", "gallery", "video", "poll", "crosspost", "text", "link"}
PriorityTags == <<"image", "gallery", "video", "poll", "crosspost", "text">>

\* The raw type hints of a submission, in the priority order of the claim.
HintSet(p) ==
    << p.post_hint = Str("image"),
       p.is_gallery = "True",
       p.is_video = "True",
       p.has_poll_data,
       p.has_crosspost_parent,
       p.is_self >>

Judged == ppc \notin {"idle", "judge"}

\* C2: classification yields exactly one of the seven tags: the tag of the
\* first hint that is set, in the order image-hint, gallery, video, poll,
\* crosspost, self-text, and link when none is set. So post_hint = "image"
\* gives image whatever the other hints are, and is_self with no
\* higher-priority hint gives text.
C2_FirstMatchInPriorityOrder ==
    Judged =>
        LET h == HintSet(sub)
            set == { i \in 1..6 : h[i] }
        IN  /\ post_type \in PostTypes
            /\ set = {} => post_type = "link"
            /\ \A i \in set :
                  (\A j \in set : i <= j) => post_type = PriorityTags[i]
            /\ sub.post_hint = Str("image") => post_type = "image"
            /\ (sub.is_self /\ set = {6}) => post_type = "text"

\* Every hint is set and the image hint wins.
C2_Witness ==
    /\ ppc = "url"
    /\ HintSet(sub) = <<TRUE, TRUE, TRUE, TRUE, TRUE, TRUE>>
    /\ post_type = "image"

\* Only is_self is set and the tag is text.
C2_WitnessText ==
    /\ ppc = "url"
    /\ HintSet(sub) = <<FALSE, FALSE, FALSE, FALSE, FALSE, TRUE>>
    /\ post_type = "text"

\* The loop body is through with the submission: it was appended to posts,
\* skipped by a `continue`, or the body raised.
BodyFinished == ppc \in {"kept", "dropped", "raised", "rendered"}
Kept == ppc \in {"kept", "rendered"} /\ Len(posts) = 1 /\ posts[1].id = sub.id

\* C3: a fetched submission is kept by _retrieve_hot_posts if and only if
\* none of the four drop conditions holds (author AutoModerator, title
\* containing "megathread" in any case, upvote ratio below 0.7, content type
\* gallery, poll or crosspost); a bot-authored submission is dropped
\* whatever its other fields are; a ratio of exactly 0.7 does not drop.
C3_KeptIffNoDropCondition ==
    BodyFinished =>
        /\ Kept <=>
              ~ \/ sub.author_name = "AutoModerator"
                \/ TitleHasMegathread(sub.title)
                \/ sub.upvote_ratio < 70
                \/ post_type \in {"gallery", "poll", "crosspost"}
        /\ sub.author_name = "AutoModerator" => ppc = "dropped"

\* What holds of the filter beside C3: once line 114 has returned, the
\* submission is kept if and only if no drop condition holds, a bot post is
\* skipped, and a ratio of exactly 0.7 drops nothing.
FilterDecidesOnceUrlResolved ==
    ppc \in {"kept", "dropped", "rendered"} =>
        /\ Kept <=>
              ~ \/ sub.author_name = "AutoModerator"
                \/ TitleHasMegathread(sub.title)
                \/ sub.upvote_ratio < 70
                \/ post_type \in {"gallery", "poll", "crosspost"}
        /\ sub.author_name = "AutoModerator" => ppc = "dropped"

HasFallbackUrl(m) ==
    /\ m.tag = "dict"
    /\ "reddit_video" \in DOMAIN m.items
    /\ m.items["reddit_video"].tag = "dict"
    /\ "fallback_url" \in DOMAIN m.items["reddit_video"].items

FallbackUrl(m) == m.items["reddit_video"].items["fallback_url"]

\* C10: for a submission classified video the resolved URL is
\* media.reddit_video.fallback_url when that exists, else the fallback URL
\* of secure_media when that exists, else null; resolution never raises,
\* also when a media field is present but empty or null; a video post with
\* a null URL is rendered with an empty media block.
C10_VideoUrlResolution ==
    (post_type = "video" /\ ppc \notin {"idle", "judge", "url"}) =>
        /\ ppc # "raised"
        /\ url = IF HasFallbackUrl(sub.media) THEN FallbackUrl(sub.media)
                 ELSE IF HasFallbackUrl(sub.secure_media)
                      THEN FallbackUrl(sub.secure_media)
                 ELSE Null
        /\ (ppc = "rendered" /\ url = Null)
              => fragment.image_or_video_or_none = [kind |-> "empty"]

\* What holds of the rendering beside C10: a video post kept with a null
\* URL is rendered with an empty media block.
NullVideoUrlRendersNoEmbed ==
    (ppc = "rendered" /\ post_type = "video" /\ url = Null)
        => fragment.image_or_video_or_none = [kind |-> "empty"]

\* ------------------------------------------------------------------------
\* Claims about _retrieve_top_comments_of_post (SpecComments)
\* ------------------------------------------------------------------------
\* The comments of the served list, placeholders left out, in served order.
RECURSIVE NativeOrder(_)
NativeOrder(f) ==
    IF f = <<>> THEN <<>>
    ELSE IF Head(f).kind = "more" THEN NativeOrder(Tail(f))
    ELSE <<[text |-> Head(f).body, upvotes |-> Head(f).ups]>>
             \o NativeOrder(Tail(f))

EffectiveLimit == IF limit = Null THEN 3 ELSE limit.n

\* C9: _retrieve_top_comments_of_post returns exactly the first
\* min(limit, n) comments of the flattened list in the API's order, n being
\* the length of that list without the load-more placeholders: never more
\* than limit comments, never re-sorted by upvotes.
C9_FirstMinLimitInNativeOrder ==
    cpc = "done" =>
        LET native == NativeOrder(forest)
            n == Len(native)
            k == IF EffectiveLimit < n THEN EffectiveLimit ELSE n
        IN  /\ Len(comments) = k
            /\ Len(comments) <= EffectiveLimit
            /\ \A i \in 1..k : comments[i] = native[i]

\* More comments than the limit, a placeholder in the list, and a result
\* that is not in descending upvote order.
C9_Witness ==
    /\ cpc = "done"
    /\ Len(NativeOrder(forest)) > EffectiveLimit
    /\ \E i \in 1..Len(forest) : forest[i].kind = "more"
    /\ Len(comments) >= 2
    /\ comments[1].upvotes < comments[2].upvotes

\* ------------------------------------------------------------------------
\* Claims about the generation run (SpecRun)
\* ------------------------------------------------------------------------
\* C4: a run publishes a full digest or nothing: when the comment fetch or
\* the summarization call fails for a post, the run stops at that post (no
\* step follows), no put_object call was or is issued in that invocation,
\* and lambda_handler answers with status 500.
C4_FullDigestOrNothing ==
    failed \in {"comments", "summarize"} =>
        /\ rpc = "returned"
        /\ ~ENABLED NextRun
        /\ put_calls = <<>>
        /\ status = 500

\* The summarization of a post of the second community fails after
\* fragments were accumulated.
C4_Witness ==
    /\ failed = "summarize"
    /\ sub_idx = 2
    /\ Len(markdowns) >= 2
    /\ put_calls = <<>>
    /\ status = 500

\* The fragment of a served submission that survives the filter.
ExpectedFragment(p) ==
    LET type == judge_post_type(p)
        u == IF type = "video" THEN get_video_url(p).value ELSE p.url
    IN  stylize_post(RedditPost(p, type, u), SummaryOf(p))

\* C5: the document put to storage is the fragments of the surviving posts
\* in community order and, within a community, in hot order, joined by the
\* separator: the k-th fragment at position 2k-1, a separator between two
\* fragments, none leading or trailing (n fragments, n-1 separators). With
\* no surviving post the document is empty, and a run that ends normally
\* has issued its put all the same.
C5_DocumentIsJoinedFragments ==
    /\ \A c \in 1..Len(put_calls) :
          LET body == put_calls[c].body
              n == Len(hot_kept)
          IN  /\ Len(body) = IF n = 0 THEN 0 ELSE 2 * n - 1
              /\ \A k \in 1..n : body[2 * k - 1] = ExpectedFragment(hot_kept[k])
              /\ \A k \in 1..(n - 1) : body[2 * k] = Separator
    /\ (rpc = "returned" /\ status = 200) => Len(put_calls) = 1
    /\ Len(put_calls) <= 1

\* A document of three fragments, so of two communities, not all alike.
C5_Witness ==
    /\ Len(put_calls) = 1
    /\ Len(put_calls[1].body) >= 5
    /\ put_calls[1].body[1] # put_calls[1].body[3]

\* No post survived in any community and the empty document was put.
C5_WitnessEmpty ==
    /\ Len(put_calls) = 1
    /\ put_calls[1].body = <<>>
    /\ put_calls[1].outcome = "ok"
    /\ hot_kept = <<>>

\* ------------------------------------------------------------------------
\* Claims about the chat handler (SpecChat)
\* ------------------------------------------------------------------------
FetchFailed(resp) == resp.kind # "page"

\* C7: fetch_url_content returns None and never raises on a network,
\* HTTP-status, parse or timeout failure; in chat a failing link does not
\* abort the request: every link is fetched, in order, and the prompt is
\* built and sent.
C7_FailedFetchIsOmitted ==
    /\ kpc # "aborted"
    /\ \A i \in 1..Len(fetched) :
          /\ ~fetched[i].result.raised
          /\ FetchFailed(fetched[i].resp) => fetched[i].result.value = Null
          /\ fetched[i].url = chat_links[i]
    /\ kpc \in {"build", "sent"} => Len(fetched) = Len(chat_links)
    /\ kpc = "sent" => prompt.sent
    /\ kpc \in {"extract", "fetch", "build"} => ENABLED NextChat

\* The first link failed, a later one was fetched and the prompt was sent
\* with its block.
C7_Witness ==
    /\ kpc = "sent"
    /\ Len(fetched) >= 2
    /\ fetched[1].resp.kind = "timeout"
    /\ fetched[2].resp.kind = "page"
    /\ prompt.additional_context.present
    /\ prompt.additional_context.blocks[1].url = chat_links[2]

\* The blocks for the fetches so far that satisfy Wanted, in fetch order.
BlocksOf(fs, Wanted(_)) ==
    LET Chosen(f) == Wanted(f.result.value)
        sel == SelectSeq(fs, Chosen)
    IN  [i \in 1..Len(sel) |-> Block(sel[i].url, sel[i].result.value)]

ReturnedText(v) == v # Null
ReturnedNonEmptyText(v) == v # Null /\ v.len > 0

SentBlocks ==
    IF prompt.additional_context.present
    THEN prompt.additional_context.blocks ELSE <<>>

\* C8 as stated: the prompt carries one block for every link whose fetch
\* returned text rather than None, in link order (digest links first), no
\* block for a link whose fetch failed, and the section is left out exactly
\* when no fetch returned text.
C8_BlockForEveryFetchedLink ==
    kpc = "sent" =>
        /\ SentBlocks = BlocksOf(fetched, ReturnedText)
        /\ ~prompt.additional_context.present
              <=> (\A i \in 1..Len(fetched) : fetched[i].result.value = Null)

\* C8 amended: the prompt carries one block for every link whose fetch
\* returned a non-empty text, in link order (digest links first), no block
\* for a link whose fetch returned None or the empty text, and the section
\* is left out exactly when no fetch returned a non-empty text.
C8_BlockForEveryNonEmptyFetch ==
    kpc = "sent" =>
        /\ chat_links = extract_links(markdown) \o extract_links(message)
        /\ \A i \in 1..Len(chat_links) : fetched[i].url = chat_links[i]
        /\ SentBlocks = BlocksOf(fetched, ReturnedNonEmptyText)
        /\ ~prompt.additional_context.present
              <=> (\A i \in 1..Len(fetched) :
                      ~ReturnedNonEmptyText(fetched[i].result.value))

\* A digest link and a message link fetched, a link between them failed:
\* two blocks, digest link first.
C8_Witness ==
    /\ kpc = "sent"
    /\ Len(chat_links) = 3
    /\ FetchFailed(fetched[2].resp)
    /\ Len(SentBlocks) = 2
    /\ SentBlocks[1].url = extract_links(markdown)[1]
    /\ SentBlocks[2].url = extract_links(message)[1]

\* ------------------------------------------------------------------------
\* Claims about the storage write (SpecRun)
\* ------------------------------------------------------------------------
PutFailed == \E c \in 1..Len(put_calls) : put_calls[c].outcome # "ok"

\* C11 as stated: a failure of the put of the digest is caught and logged,
\* never propagated: every post was processed, the run completes normally
\* and lambda_handler reports the job as finished (status 200).
C11_PutFailureNeverPropagates ==
    PutFailed =>
        /\ Len(markdowns) = Len(hot_kept)
        /\ rpc = "returned"
        /\ status = 200

\* C11 amended: a put failure raised as ClientError is caught and logged:
\* every post was processed, the one put was issued and failed (the digest
\* is lost), the run ends and lambda_handler answers 200; a put failure
\* raised as any other exception is not caught by _store_summaries and
\* lambda_handler answers 500.
C11_ClientErrorIsCaught ==
    /\ failed = "put_client_error" =>
          /\ Len(markdowns) = Len(hot_kept)
          /\ Len(put_calls) = 1
          /\ put_calls[1].outcome = "ClientError"
          /\ put_calls[1].body = JoinSummaries(markdowns)
          /\ rpc = "returned"
          /\ ~ENABLED NextRun
          /\ status = 200
    /\ failed = "put_other_error" =>
          /\ put_calls[Len(put_calls)].outcome = "OtherError"
          /\ rpc = "returned"
          /\ status = 500
    /\ PutFailed <=> failed \in {"put_client_error", "put_other_error"}

\* A digest of posts of two communities was assembled, its put raised
\* ClientError and the handler answered 200.
C11_Witness ==
    /\ failed = "put_client_error"
    /\ Len(markdowns) >= 3
    /\ put_calls[1].outcome = "ClientError"
    /\ status = 200

====
